---- MODULE Spec2Model ----
(***************************************************************************)
(* State-machine model of CommunicationServicer                            *)
(* (src/grpc_expts/server_benchmark.py): the gRPC servicer that hands out  *)
(* client ids, tracks liveness, collects one parameter map per             *)
(* SendMessage call and averages them once target_clients maps are in.     *)
(*                                                                         *)
(* Every handler runs on a worker thread of the server's pool.  A thread   *)
(* is at "idle" between calls; inside a call its pc names the next         *)
(* statement it will execute.  `with self.lock:` / `with self.condition:`  *)
(* are an acquire step (enabled only while the lock is free) followed by   *)
(* the body, which ends by releasing the lock.  self.condition is built    *)
(* on self.lock (line 38), so both `with` statements take the same lock.   *)
(***************************************************************************)
EXTENDS Integers, Sequences, FiniteSets, TLC

\* ------------------------------------------------------------------ bounds
\* Worker threads serving calls at the same time.
NThreads == 3
\* Distinct values np.random.randint can return in the model.
MaxIds == 3
\* Calls of each kind a behaviour may start (see Budget).
MaxSubmits == 3
MaxRegs == 4
MaxByes == 1
MaxSizes == 1
MaxModels == 1
MaxTicks == 1
\* Seconds the clock advances per Tick.
TickSeconds == 301

\* ------------------------------------------------------- program constants
target_clients == 2
STALE_SECONDS == 300
STATUS_ALIVE == "ALIVE"
STATUS_DEAD == "DEAD"
\* self.state_dict = None
None == [kind |-> "None"]
\* No thread holds self.lock.
Free == 0

\* ------------------------------------------------------------ parameter maps
\* Parameter names are strings; a name is modelled as its sequence of
\* characters so that the substring test of line 161 is computed.
NameFc == <<"f", "c">>
NameBn == <<"b", "n", "1">>
Keys == {NameFc, NameBn}
Vals == {2, 4}
\* The state dicts a client may send: every map has the same key set.
ParamMap(v) == [k \in Keys |-> v]
ParamMaps == {ParamMap(v) : v \in Vals}
\* Every state dict with parameter names K and values in Vals.
MapsOver(K) == [K -> Vals]
\* A model all of whose parameters belong to batch-norm layers.
BnMap(v) == [k \in {NameBn} |-> v]

\* "bn" in name
HasBn(name) ==
    \E i \in 1..(Len(name) - 1) : name[i] = "b" /\ name[i + 1] = "n"

RECURSIVE Gcd(_, _)
Gcd(a, b) == IF b = 0 THEN a ELSE Gcd(b, a % b)

\* param / float(n): the quotient as a reduced fraction <<numerator, denominator>>.
Div(s, n) == LET g == Gcd(s, n) IN <<s \div g, n \div g>>

RECURSIVE SumOf(_, _)
\* The running sum of lines 163-166 for one name over the collected maps
\* that have it.
SumOf(maps, name) ==
    IF maps = <<>> THEN 0
    ELSE (IF name \in DOMAIN Head(maps) THEN Head(maps)[name] ELSE 0)
            + SumOf(Tail(maps), name)

\* The names that end up in avg_state_dict: those of any collected map that
\* do not contain "bn".
AvgKeys(maps) ==
    {name \in UNION {DOMAIN maps[i] : i \in 1..Len(maps)} : ~HasBn(name)}

\* Line 170 dividing by the configured quorum instead of the number of maps.
Average_DivideByTarget(maps) ==
    [kind |-> "dict",
     items |-> [name \in AvgKeys(maps) |-> Div(SumOf(maps, name), target_clients)]]

\* avg_state_dict as built by lines 156-170 for a non-empty list of maps.
Average(maps) ==
    [kind |-> "dict",
     items |-> [name \in AvgKeys(maps) |-> Div(SumOf(maps, name), Len(maps))]]

\* ------------------------------------------------------------------- state
VARIABLES
    user_ids,        \* self.user_ids: id -> [user_num, status, last_active]
    local_averages,  \* self.local_averages
    num_clients,     \* self.num_clients
    state_dict,      \* self.state_dict
    lock,            \* holder of self.lock, or Free
    now,             \* time.time()
    pc,              \* per worker thread: the statement it is at
    req,             \* per worker thread: the request it is serving
    ret,             \* what the last finished GetSize or GetModel call returned
    la_calls,        \* history: the thread whose call appended each entry of local_averages
    aggLog,          \* history: per write of state_dict, the number of maps averaged
    regs,            \* history: number of GetID calls that took effect
    byes,            \* history: number of SendBye calls that removed a user
    subs,            \* history: per client id, the SendMessage calls that passed line 112
    env              \* what the environment may still do: call budgets, models, ids

vars == <<user_ids, local_averages, num_clients, state_dict, lock, now, pc, req,
          ret, la_calls, aggLog, regs, byes, subs, env>>

Threads == DOMAIN pc
\* The values np.random.randint draws from.
Ids == env.ids
\* The ids a request may carry: any id ever drawn or registered.
ClientIds == Ids \cup DOMAIN subs

NoReq == [op |-> "none"]
NoRet == [op |-> "none"]

\* What the environment does in the general specification: how many calls
\* of each kind it may start, how many SendMessage calls one client may make,
\* the models clients send and the values the id generator draws from.
Budget ==
    [submit |-> MaxSubmits, perClient |-> MaxSubmits, reg |-> MaxRegs,
     bye |-> MaxByes, size |-> MaxSizes, model |-> MaxModels, tick |-> MaxTicks,
     maps |-> ParamMaps, ids |-> 1..MaxIds]

\* A session as GetID stores it (lines 77-81).
Session(user_num, t0) ==
    [user_num |-> user_num, status |-> STATUS_ALIVE, last_active |-> t0]

\* The servicer with `workers` pool threads, all idle, after `k` clients have
\* registered one after another at time 0; k = 0 is the servicer after
\* __init__ (lines 35-56).  num_clients is not set by __init__; it is
\* written (line 118) before any read (lines 121, 126), so its initial value
\* is never observed.
InitWith(workers, k, b) ==
    /\ user_ids = [i \in 1..k |-> Session(i, 0)]
    /\ local_averages = <<>>
    /\ num_clients = 0
    /\ state_dict = None
    /\ lock = Free
    /\ now = 0
    /\ pc = [t \in 1..workers |-> "idle"]
    /\ req = [t \in 1..workers |-> NoReq]
    /\ ret = NoRet
    /\ la_calls = <<>>
    /\ aggLog = <<>>
    /\ regs = k
    /\ byes = 0
    /\ subs = [i \in b.ids \cup 1..k |-> 0]
    /\ env = b

Init == InitWith(NThreads, 0, Budget)

\* The pool hands an incoming call to an idle worker; workers are
\* interchangeable, so it is the lowest-numbered idle one.
Idle(t) == pc[t] = "idle" /\ \A u \in Threads : u < t => pc[u] # "idle"

\* `with self.lock:` / `with self.condition:` entered by thread t.
Acquire(t, from, to) ==
    /\ pc[t] = from
    /\ lock = Free
    /\ lock' = t
    /\ pc' = [pc EXCEPT ![t] = to]

\* An uncaught exception (KeyError at line 112 or 149, RuntimeError at line
\* 95) leaves the handler: the call fails.
Raise(t) ==
    /\ pc[t] \in {"KeyError", "RuntimeError"}
    /\ pc' = [pc EXCEPT ![t] = "idle"]
    /\ req' = [req EXCEPT ![t] = NoReq]
    /\ UNCHANGED <<user_ids, local_averages, num_clients, state_dict, lock, now,
                   ret, la_calls, aggLog, regs, byes, subs, env>>

\* ------------------------------------------------------------------ GetID
\* Threads inside GetID.
Registering == {t \in Threads : req[t].op = "GetID"}

\* A GetID request reaches a worker.  The model draws ids from a few values,
\* so it starts no more registrations than there are ids left.
GetID_Call(t) ==
    /\ Idle(t)
    /\ env.reg > 0
    /\ Cardinality(DOMAIN user_ids) + Cardinality(Registering) < Cardinality(Ids)
    /\ env' = [env EXCEPT !.reg = @ - 1]
    /\ pc' = [pc EXCEPT ![t] = "GetID_lock"]
    /\ req' = [req EXCEPT ![t] = [op |-> "GetID"]]
    /\ UNCHANGED <<user_ids, local_averages, num_clients, state_dict, lock, now,
                   ret, la_calls, aggLog, regs, byes, subs>>

\* Line 74.
GetID_Acquire(t) ==
    /\ Acquire(t, "GetID_lock", "GetID_body")
    /\ UNCHANGED <<user_ids, local_averages, num_clients, state_dict, now, req,
                   ret, la_calls, aggLog, regs, byes, subs, env>>

\* _generate_ID without the `while random_id in self.user_ids` loop.
GenerateID_NoCollisionCheck == Ids

\* The ids _generate_ID can return: hex(hash(int_id)) is one-to-one on the
\* integers drawn, and the loop redraws while the id is a key of user_ids.
GenerateID == Ids \ DOMAIN user_ids

\* user_num = len(self.user_ids) + 1
UserNum == Cardinality(DOMAIN user_ids) + 1

\* Lines 75-83 and the release that ends the `with` block; the call returns
\* (random_id, user_num), the session it stored.
GetID_Body(t) ==
    /\ pc[t] = "GetID_body"
    /\ \E random_id \in GenerateID :
         user_ids' = [i \in DOMAIN user_ids \cup {random_id} |->
                         IF i = random_id THEN Session(UserNum, now) ELSE user_ids[i]]
    /\ regs' = regs + 1
    /\ lock' = Free
    /\ pc' = [pc EXCEPT ![t] = "idle"]
    /\ req' = [req EXCEPT ![t] = NoReq]
    /\ UNCHANGED <<local_averages, num_clients, state_dict, now, ret, la_calls,
                   aggLog, byes, subs, env>>

\* ---------------------------------------------------------------- SendBye
SendBye_Call(t, id) ==
    /\ Idle(t)
    /\ env.bye > 0
    /\ env' = [env EXCEPT !.bye = @ - 1]
    /\ pc' = [pc EXCEPT ![t] = "SendBye_lock"]
    /\ req' = [req EXCEPT ![t] = [op |-> "SendBye", id |-> id]]
    /\ UNCHANGED <<user_ids, local_averages, num_clients, state_dict, lock, now,
                   ret, la_calls, aggLog, regs, byes, subs>>

\* Line 147.
SendBye_Acquire(t) ==
    /\ Acquire(t, "SendBye_lock", "SendBye_body")
    /\ UNCHANGED <<user_ids, local_averages, num_clients, state_dict, now, req,
                   ret, la_calls, aggLog, regs, byes, subs, env>>

\* Lines 148-150 and the release that ends the `with` block.
\* self.user_ids.pop(request.id) raises KeyError when the id is no key.
SendBye_Body(t) ==
    /\ pc[t] = "SendBye_body"
    /\ IF req[t].id \in DOMAIN user_ids
       THEN /\ user_ids' = [i \in DOMAIN user_ids \ {req[t].id} |-> user_ids[i]]
            /\ byes' = byes + 1
            /\ pc' = [pc EXCEPT ![t] = "idle"]
            /\ req' = [req EXCEPT ![t] = NoReq]
       ELSE /\ pc' = [pc EXCEPT ![t] = "KeyError"]
            /\ UNCHANGED <<user_ids, byes, req>>
    /\ lock' = Free
    /\ UNCHANGED <<local_averages, num_clients, state_dict, now, ret, la_calls,
                   aggLog, regs, subs, env>>

\* ------------------------------------------------------------ SendMessage
\* Threads suspended in self.condition.wait().
Waiting == {t \in Threads : pc[t] = "SM_waiting"}

\* self.condition.notify_all(): every suspended thread is woken; each returns
\* from wait() once it has the lock again.
NotifyAll == [t \in Threads |-> IF pc[t] = "SM_waiting" THEN "SM_woken" ELSE pc[t]]

\* A SendMessage request (id, model) reaches a worker.  `agg` counts the
\* writes of state_dict that averaged this call's map.
SendMessage_Call(t, id, m) ==
    /\ Idle(t)
    /\ env.submit > 0
    /\ subs[id] + Cardinality({u \in Threads : pc[u] = "SM_heartbeat" /\ req[u].id = id})
         < env.perClient
    /\ env' = [env EXCEPT !.submit = @ - 1]
    /\ pc' = [pc EXCEPT ![t] = "SM_heartbeat"]
    /\ req' = [req EXCEPT ![t] = [op |-> "SendMessage", id |-> id, model |-> m,
                                  agg |-> 0]]
    /\ UNCHANGED <<user_ids, local_averages, num_clients, state_dict, lock, now,
                   ret, la_calls, aggLog, regs, byes, subs>>

\* Lines 111-112 with a lookup that does not fail on an unknown id.
SM_Heartbeat_NoKeyError(t) ==
    /\ pc[t] = "SM_heartbeat"
    /\ user_ids' = [i \in DOMAIN user_ids |->
                      IF i = req[t].id THEN [user_ids[i] EXCEPT !.last_active = now]
                      ELSE user_ids[i]]
    /\ subs' = [subs EXCEPT ![req[t].id] = @ + 1]
    /\ pc' = [pc EXCEPT ![t] = "SM_lock1"]
    /\ UNCHANGED <<local_averages, num_clients, state_dict, lock, now, req, ret,
                   la_calls, aggLog, regs, byes, env>>

\* Lines 111-112 with a heartbeat that also sets the status to ALIVE.
SM_Heartbeat_Revive(t) ==
    /\ pc[t] = "SM_heartbeat"
    /\ IF req[t].id \in DOMAIN user_ids
       THEN /\ user_ids' = [user_ids EXCEPT ![req[t].id] =
                               [@ EXCEPT !.last_active = now,
                                         !.status = STATUS_ALIVE]]
            /\ subs' = [subs EXCEPT ![req[t].id] = @ + 1]
            /\ pc' = [pc EXCEPT ![t] = "SM_lock1"]
       ELSE /\ pc' = [pc EXCEPT ![t] = "KeyError"]
            /\ UNCHANGED <<user_ids, subs>>
    /\ UNCHANGED <<local_averages, num_clients, state_dict, lock, now, req, ret,
                   la_calls, aggLog, regs, byes, env>>

\* Lines 111-112, executed without the lock.  An id that is no key of
\* user_ids raises KeyError.
SM_Heartbeat(t) ==
    /\ pc[t] = "SM_heartbeat"
    /\ IF req[t].id \in DOMAIN user_ids
       THEN /\ user_ids' = [user_ids EXCEPT ![req[t].id].last_active = now]
            /\ subs' = [subs EXCEPT ![req[t].id] = @ + 1]
            /\ pc' = [pc EXCEPT ![t] = "SM_lock1"]
       ELSE /\ pc' = [pc EXCEPT ![t] = "KeyError"]
            /\ UNCHANGED <<user_ids, subs>>
    /\ UNCHANGED <<local_averages, num_clients, state_dict, lock, now, req, ret,
                   la_calls, aggLog, regs, byes, env>>

\* Line 116.
SM_Acquire1(t) ==
    /\ Acquire(t, "SM_lock1", "SM_append")
    /\ UNCHANGED <<user_ids, local_averages, num_clients, state_dict, now, req,
                   ret, la_calls, aggLog, regs, byes, subs, env>>

\* Lines 117-123 and the release that ends the `with` block.
SM_Append(t) ==
    /\ pc[t] = "SM_append"
    /\ local_averages' = Append(local_averages, req[t].model)
    /\ la_calls' = Append(la_calls, t)
    /\ num_clients' = Len(local_averages')
    /\ pc' = [(IF num_clients' >= target_clients THEN NotifyAll ELSE pc)
                EXCEPT ![t] = "SM_lock2"]
    /\ lock' = Free
    /\ UNCHANGED <<user_ids, state_dict, now, req, ret, aggLog, regs, byes,
                   subs, env>>

\* Line 125.
SM_Acquire2(t) ==
    /\ Acquire(t, "SM_lock2", "SM_check")
    /\ UNCHANGED <<user_ids, local_averages, num_clients, state_dict, now, req,
                   ret, la_calls, aggLog, regs, byes, subs, env>>

\* Lines 125-130 without the wait: the caller goes on whatever the count.
SM_Check_NoWait(t) ==
    /\ pc[t] = "SM_check"
    /\ pc' = [pc EXCEPT ![t] = "SM_lock3"]
    /\ lock' = Free
    /\ UNCHANGED <<user_ids, local_averages, num_clients, state_dict, now, req,
                   ret, la_calls, aggLog, regs, byes, subs, env>>

\* Lines 125-130 with a wait() that suspends without releasing the lock.
SM_Check_WaitHoldsLock(t) ==
    /\ pc[t] = "SM_check"
    /\ IF num_clients < target_clients
       THEN pc' = [pc EXCEPT ![t] = "SM_waiting"] /\ UNCHANGED lock
       ELSE pc' = [pc EXCEPT ![t] = "SM_lock3"] /\ lock' = Free
    /\ UNCHANGED <<user_ids, local_averages, num_clients, state_dict, now, req,
                   ret, la_calls, aggLog, regs, byes, subs, env>>

\* Line 126, evaluated with the lock held: either wait() (line 130), which
\* releases the lock and suspends, or the end of the `with` block.
SM_Check(t) ==
    /\ pc[t] = "SM_check"
    /\ pc' = [pc EXCEPT ![t] = IF num_clients < target_clients
                               THEN "SM_waiting" ELSE "SM_lock3"]
    /\ lock' = Free
    /\ UNCHANGED <<user_ids, local_averages, num_clients, state_dict, now, req,
                   ret, la_calls, aggLog, regs, byes, subs, env>>

\* wait() returns in a notified thread once it has re-acquired the lock; the
\* loop then tests line 126 again.
SM_Wake(t) ==
    /\ Acquire(t, "SM_woken", "SM_check")
    /\ UNCHANGED <<user_ids, local_averages, num_clients, state_dict, now, req,
                   ret, la_calls, aggLog, regs, byes, subs, env>>

\* Line 132.
SM_Acquire3(t) ==
    /\ Acquire(t, "SM_lock3", "SM_agg")
    /\ UNCHANGED <<user_ids, local_averages, num_clients, state_dict, now, req,
                   ret, la_calls, aggLog, regs, byes, subs, env>>

\* The threads whose maps are in local_averages.
Collected == {la_calls[i] : i \in 1..Len(la_calls)}

\* _compute_global_average without the test of lines 153-154: an empty list
\* resets state_dict.
ComputeGlobalAverage_NoEmptyTest ==
    IF local_averages = <<>>
    THEN state_dict' = None /\ UNCHANGED <<aggLog, req>>
    ELSE /\ state_dict' = Average(local_averages)
         /\ aggLog' = Append(aggLog, Len(local_averages))
         /\ req' = [u \in Threads |->
                      IF u \in Collected
                      THEN [req[u] EXCEPT !.agg =
                              @ + Cardinality({i \in 1..Len(la_calls) : la_calls[i] = u})]
                      ELSE req[u]]

\* _compute_global_average (lines 152-172): nothing for an empty list,
\* otherwise state_dict becomes the average of the collected maps.
ComputeGlobalAverage ==
    IF local_averages = <<>>
    THEN UNCHANGED <<state_dict, aggLog, req>>
    ELSE /\ state_dict' = Average(local_averages)
         /\ aggLog' = Append(aggLog, Len(local_averages))
         /\ req' = [u \in Threads |->
                      IF u \in Collected
                      THEN [req[u] EXCEPT !.agg =
                              @ + Cardinality({i \in 1..Len(la_calls) : la_calls[i] = u})]
                      ELSE req[u]]

\* Line 134 left out.
ClearCollected_Keep == UNCHANGED <<local_averages, la_calls>>

\* self.local_averages = [] (line 134).
ClearCollected ==
    /\ local_averages' = <<>>
    /\ la_calls' = <<>>

\* Lines 133-134 swapped: the list is emptied before it is averaged.
SM_Aggregate_ClearFirst(t) ==
    /\ pc[t] = "SM_agg"
    /\ ClearCollected
    /\ lock' = Free
    /\ pc' = [pc EXCEPT ![t] = "SM_ret"]
    /\ UNCHANGED <<user_ids, num_clients, state_dict, now, req, ret, aggLog,
                   regs, byes, subs, env>>

\* Line 134 left out: the list is averaged and kept.
SM_Aggregate_NoClear(t) ==
    /\ pc[t] = "SM_agg"
    /\ ComputeGlobalAverage
    /\ lock' = Free
    /\ pc' = [pc EXCEPT ![t] = "SM_ret"]
    /\ UNCHANGED <<user_ids, local_averages, la_calls, num_clients, now, ret,
                   regs, byes, subs, env>>

\* Lines 133-135 and the release that ends the `with` block.
SM_Aggregate(t) ==
    /\ pc[t] = "SM_agg"
    /\ ComputeGlobalAverage
    /\ ClearCollected
    /\ lock' = Free
    /\ pc' = [pc EXCEPT ![t] = "SM_ret"]
    /\ UNCHANGED <<user_ids, num_clients, now, ret, regs, byes, subs, env>>

\* Lines 137-143: the call returns.
SM_Return(t) ==
    /\ pc[t] = "SM_ret"
    /\ pc' = [pc EXCEPT ![t] = "idle"]
    /\ req' = [req EXCEPT ![t] = NoReq]
    /\ UNCHANGED <<user_ids, local_averages, num_clients, state_dict, lock, now,
                   ret, la_calls, aggLog, regs, byes, subs, env>>

\* ---------------------------------------------------------------- GetSize
GetSize_Call(t) ==
    /\ Idle(t)
    /\ env.size > 0
    /\ env' = [env EXCEPT !.size = @ - 1]
    /\ pc' = [pc EXCEPT ![t] = "GetSize_lock"]
    /\ req' = [req EXCEPT ![t] = [op |-> "GetSize"]]
    /\ UNCHANGED <<user_ids, local_averages, num_clients, state_dict, lock, now,
                   ret, la_calls, aggLog, regs, byes, subs>>

\* Line 87.
GetSize_Acquire(t) ==
    /\ Acquire(t, "GetSize_lock", "GetSize_sweep")
    /\ UNCHANGED <<user_ids, local_averages, num_clients, state_dict, now, req,
                   ret, la_calls, aggLog, regs, byes, subs, env>>

\* The number of sessions of a registry whose status is ALIVE.
AliveIn(users) ==
    Cardinality({i \in DOMAIN users : users[i].status = STATUS_ALIVE})

\* Lines 88-91 and the release that ends the `with` block.  `left` records
\* the registry as the sweep left it.
GetSize_Sweep(t) ==
    /\ pc[t] = "GetSize_sweep"
    /\ user_ids' = [i \in DOMAIN user_ids |->
                      IF now - user_ids[i].last_active > STALE_SECONDS
                      THEN [user_ids[i] EXCEPT !.status = STATUS_DEAD]
                      ELSE user_ids[i]]
    /\ req' = [req EXCEPT ![t] = [op |-> "GetSize", left |-> user_ids']]
    /\ lock' = Free
    /\ pc' = [pc EXCEPT ![t] = "GetSize_iter"]
    /\ UNCHANGED <<local_averages, num_clients, state_dict, now, ret,
                   la_calls, aggLog, regs, byes, subs, env>>

\* Line 95, executed after the lock was released: self.user_ids.items() is
\* handed to the comprehension, whose iterator remembers the size of the dict.
GetSize_Iter(t) ==
    /\ pc[t] = "GetSize_iter"
    /\ req' = [req EXCEPT ![t] = [op |-> "GetSize", left |-> req[t].left,
                                  used |-> Cardinality(DOMAIN user_ids)]]
    /\ pc' = [pc EXCEPT ![t] = "GetSize_count"]
    /\ UNCHANGED <<user_ids, local_averages, num_clients, state_dict, lock, now,
                   ret, la_calls, aggLog, regs, byes, subs, env>>

\* The count with the test of line 96 left out: every session is counted.
GetSize_Count_CountAll(t) ==
    /\ pc[t] = "GetSize_count"
    /\ IF Cardinality(DOMAIN user_ids) # req[t].used
       THEN /\ pc' = [pc EXCEPT ![t] = "RuntimeError"]
            /\ UNCHANGED <<ret, req>>
       ELSE /\ ret' = [op |-> "GetSize", size |-> Cardinality(DOMAIN user_ids),
                       swept |-> AliveIn(req[t].left)]
            /\ pc' = [pc EXCEPT ![t] = "idle"]
            /\ req' = [req EXCEPT ![t] = NoReq]
    /\ UNCHANGED <<user_ids, local_averages, num_clients, state_dict, lock, now,
                   la_calls, aggLog, regs, byes, subs, env>>

\* Lines 93-100, still without the lock: the comprehension runs to its end
\* and the number of sessions whose status is ALIVE is returned.  The
\* iterator raises RuntimeError ("dictionary changed size during iteration")
\* if GetID or SendBye changed the size of the dict since line 95; otherwise
\* the sessions are read as they are when the iteration ends.  `swept`
\* records the number of ALIVE sessions the call's own sweep left.
GetSize_Count(t) ==
    /\ pc[t] = "GetSize_count"
    /\ IF Cardinality(DOMAIN user_ids) # req[t].used
       THEN /\ pc' = [pc EXCEPT ![t] = "RuntimeError"]
            /\ UNCHANGED <<ret, req>>
       ELSE /\ ret' = [op |-> "GetSize", size |-> AliveIn(user_ids),
                       swept |-> AliveIn(req[t].left)]
            /\ pc' = [pc EXCEPT ![t] = "idle"]
            /\ req' = [req EXCEPT ![t] = NoReq]
    /\ UNCHANGED <<user_ids, local_averages, num_clients, state_dict, lock, now,
                   la_calls, aggLog, regs, byes, subs, env>>

\* --------------------------------------------------------------- GetModel
\* self.model.state_dict(): the weights the server's own model was built with.
Baseline == [kind |-> "model"]

\* `not self.state_dict`: None and the empty dict are both false.
Falsy(sd) == sd = None \/ DOMAIN sd.items = {}

\* Line 104, executed without the lock.  `pubs` records how many writes of
\* state_dict had happened when the test was made.
GetModel_Call(t) ==
    /\ Idle(t)
    /\ env.model > 0
    /\ env' = [env EXCEPT !.model = @ - 1]
    /\ pc' = [pc EXCEPT ![t] = IF Falsy(state_dict)
                               THEN "GetModel_base" ELSE "GetModel_snap"]
    /\ req' = [req EXCEPT ![t] = [op |-> "GetModel", pubs |-> Len(aggLog)]]
    /\ UNCHANGED <<user_ids, local_averages, num_clients, state_dict, lock, now,
                   ret, la_calls, aggLog, regs, byes, subs>>

\* Line 105 or line 107: the second read of self.state_dict.  `cur` records
\* the value of state_dict when the call returned.
GetModel_Return(t) ==
    /\ pc[t] \in {"GetModel_base", "GetModel_snap"}
    /\ ret' = [op |-> "GetModel",
               model |-> IF pc[t] = "GetModel_base" THEN Baseline ELSE state_dict,
               pubs |-> req[t].pubs, cur |-> state_dict]
    /\ pc' = [pc EXCEPT ![t] = "idle"]
    /\ req' = [req EXCEPT ![t] = NoReq]
    /\ UNCHANGED <<user_ids, local_averages, num_clients, state_dict, lock, now,
                   la_calls, aggLog, regs, byes, subs, env>>

\* ------------------------------------------------------------------ clock
Tick ==
    /\ env.tick > 0
    /\ env' = [env EXCEPT !.tick = @ - 1]
    /\ now' = now + TickSeconds
    /\ UNCHANGED <<user_ids, local_averages, num_clients, state_dict, lock, pc,
                   req, ret, la_calls, aggLog, regs, byes, subs>>

\* ------------------------------------------------------------ specification
\* Registration and deregistration.
NextSession ==
    \/ \E t \in Threads : GetID_Call(t)
    \/ \E t \in Threads : GetID_Acquire(t)
    \/ \E t \in Threads : GetID_Body(t)
    \/ \E t \in Threads, id \in ClientIds : SendBye_Call(t, id)
    \/ \E t \in Threads : SendBye_Acquire(t)
    \/ \E t \in Threads : SendBye_Body(t)
    \/ \E t \in Threads : Raise(t)

\* The steps of SendMessage.
NextSubmit ==
    \/ \E t \in Threads, id \in ClientIds, m \in env.maps : SendMessage_Call(t, id, m)
    \/ \E t \in Threads : SM_Heartbeat(t)
    \/ \E t \in Threads : SM_Acquire1(t)
    \/ \E t \in Threads : SM_Append(t)
    \/ \E t \in Threads : SM_Acquire2(t)
    \/ \E t \in Threads : SM_Check(t)
    \/ \E t \in Threads : SM_Wake(t)
    \/ \E t \in Threads : SM_Acquire3(t)
    \/ \E t \in Threads : SM_Aggregate(t)
    \/ \E t \in Threads : SM_Return(t)

\* Liveness reporting, snapshot reads and the passage of time.
NextQuery ==
    \/ \E t \in Threads : GetSize_Call(t)
    \/ \E t \in Threads : GetSize_Acquire(t)
    \/ \E t \in Threads : GetSize_Sweep(t)
    \/ \E t \in Threads : GetSize_Iter(t)
    \/ \E t \in Threads : GetSize_Count(t)
    \/ \E t \in Threads : GetModel_Call(t)
    \/ \E t \in Threads : GetModel_Return(t)
    \/ Tick

Next == NextSession \/ NextSubmit \/ NextQuery

\* The whole servicer.
Spec == Init /\ [][Next]_vars

\* The round barrier: clients register and submit.  GetSize, GetModel and
\* the clock write only status, last_active, now and ret, which no step of
\* GetID or SendMessage reads.
NextBarrier ==
    \/ \E t \in Threads : GetID_Call(t)
    \/ \E t \in Threads : GetID_Acquire(t)
    \/ \E t \in Threads : GetID_Body(t)
    \/ \E t \in Threads : Raise(t)
    \/ NextSubmit

\* Up to MaxSubmits calls by target_clients clients, who all send the same
\* model.
BarrierBudget ==
    [submit |-> MaxSubmits, perClient |-> MaxSubmits, reg |-> target_clients,
     bye |-> 0, size |-> 0, model |-> 0, tick |-> 0,
     maps |-> {ParamMap(2)}, ids |-> 1..target_clients]

SpecBarrier == InitWith(NThreads, 0, BarrierBudget) /\ [][NextBarrier]_vars

\* target_clients calls on target_clients workers.
QuorumBudget ==
    [submit |-> target_clients, perClient |-> target_clients, reg |-> MaxIds,
     bye |-> 0, size |-> 0, model |-> 0, tick |-> 0,
     maps |-> ParamMaps, ids |-> 1..MaxIds]

SpecQuorum == InitWith(target_clients, 0, QuorumBudget) /\ [][NextBarrier]_vars

\* Twice target_clients registered clients, each submitting once.
FourBudget ==
    [submit |-> 2 * target_clients, perClient |-> 1, reg |-> 0,
     bye |-> 0, size |-> 0, model |-> 0, tick |-> 0,
     maps |-> {ParamMap(2)}, ids |-> 1..(2 * target_clients)]

SpecFour ==
    InitWith(2 * target_clients, 2 * target_clients, FourBudget) /\ [][NextSubmit]_vars

\* Clients register, submit and deregister.
SessionBudget ==
    [submit |-> target_clients, perClient |-> target_clients, reg |-> target_clients,
     bye |-> MaxByes, size |-> 0, model |-> 0, tick |-> 0,
     maps |-> {ParamMap(2)}, ids |-> 1..target_clients]

SpecSession ==
    InitWith(NThreads, 0, SessionBudget) /\ [][NextSession \/ NextSubmit]_vars

\* Registration and deregistration alone.
RegistryBudget ==
    [submit |-> 0, perClient |-> 0, reg |-> MaxRegs, bye |-> MaxByes,
     size |-> 0, model |-> 0, tick |-> 0, maps |-> {}, ids |-> 1..MaxIds]

SpecRegistry == InitWith(NThreads, 0, RegistryBudget) /\ [][NextSession]_vars

\* The steps of GetSize.
NextSize ==
    \/ \E t \in Threads : GetSize_Call(t)
    \/ \E t \in Threads : GetSize_Acquire(t)
    \/ \E t \in Threads : GetSize_Sweep(t)
    \/ \E t \in Threads : GetSize_Iter(t)
    \/ \E t \in Threads : GetSize_Count(t)

\* Liveness reporting: target_clients clients have registered at time 0; they
\* submit once each, one more client may register, one client may leave,
\* GetSize is called and the clock advances once by TickSeconds.
LivenessBudget ==
    [submit |-> target_clients, perClient |-> 1, reg |-> 1,
     bye |-> 1, size |-> MaxSizes + 1, model |-> 0, tick |-> 1,
     maps |-> {ParamMap(2)}, ids |-> 1..(target_clients + 1)]

SpecLiveness ==
    InitWith(target_clients, target_clients, LivenessBudget)
        /\ [][NextSession \/ NextSubmit \/ NextSize \/ Tick]_vars

\* The steps of GetModel.
NextModel ==
    \/ \E t \in Threads : GetModel_Call(t)
    \/ \E t \in Threads : GetModel_Return(t)

\* Snapshot reads: target_clients registered clients submit models with and
\* without parameters outside batch-norm layers while GetModel is called.
FetchBudget ==
    [submit |-> MaxSubmits, perClient |-> target_clients, reg |-> 0,
     bye |-> 0, size |-> 0, model |-> MaxModels + 1, tick |-> 0,
     maps |-> {ParamMap(2), BnMap(2)}, ids |-> 1..target_clients]

SpecFetch ==
    InitWith(NThreads, target_clients, FetchBudget)
        /\ [][NextSubmit \/ NextModel]_vars

\* Averaging: target_clients + 1 registered clients, whose models have the
\* parameter names K, submit once each; rounds of one, two and three maps
\* are averaged.
AverageBudget(K) ==
    [submit |-> target_clients + 1, perClient |-> 1, reg |-> 0,
     bye |-> 0, size |-> 0, model |-> 0, tick |-> 0,
     maps |-> MapsOver(K), ids |-> 1..(target_clients + 1)]

SpecAverage ==
    /\ \E K \in SUBSET Keys \ {{}} :
           InitWith(target_clients + 1, target_clients + 1, AverageBudget(K))
    /\ [][NextSubmit]_vars

\* Every kind of call while a caller of SendMessage is suspended: one client
\* has registered; clients register, submit, ask for the size and the model
\* and leave, served by target_clients workers.
FairBudget ==
    [submit |-> target_clients, perClient |-> target_clients, reg |-> 1,
     bye |-> 1, size |-> 1, model |-> 1, tick |-> 0,
     maps |-> {ParamMap(2)}, ids |-> 1..target_clients]

\* The workers of SpecFair.
FairWorkers == 1..target_clients

\* A step of the call thread t is serving.
ThreadStep(t) ==
    \/ GetID_Acquire(t) \/ GetID_Body(t)
    \/ SendBye_Acquire(t) \/ SendBye_Body(t)
    \/ Raise(t)
    \/ SM_Heartbeat(t) \/ SM_Acquire1(t) \/ SM_Append(t) \/ SM_Acquire2(t)
    \/ SM_Check(t) \/ SM_Wake(t) \/ SM_Acquire3(t) \/ SM_Aggregate(t)
    \/ SM_Return(t)
    \/ GetSize_Acquire(t) \/ GetSize_Sweep(t) \/ GetSize_Iter(t)
    \/ GetSize_Count(t)
    \/ GetModel_Return(t)

\* A worker thread that can take a step eventually takes one: the
\* interpreter keeps scheduling every runnable thread.  Nothing is assumed
\* about the arrival of calls.
SpecFair ==
    /\ InitWith(target_clients, 1, FairBudget)
    /\ [][NextSession \/ NextSubmit \/ NextSize \/ NextModel]_vars
    /\ \A t \in FairWorkers : WF_vars(ThreadStep(t))

\* ------------------------------------------------------------- properties
\* Threads inside SendMessage.
Submitting == {t \in Threads : req[t].op = "SendMessage"}

\* No thread can take a step: only a new request changes the state.
Quiescent == \A t \in Threads : pc[t] \in {"idle", "SM_waiting"}

RECURSIVE SumOver(_, _)
SumOver(f, S) ==
    IF S = {} THEN 0
    ELSE LET x == CHOOSE y \in S : TRUE IN f[x] + SumOver(f, S \ {x})

\* SendMessage calls that passed line 112.
Accepted == SumOver(subs, DOMAIN subs)

\* No client has made more than one accepted SendMessage call.
DistinctClients == \A i \in DOMAIN subs : subs[i] <= 1

\* C1: when a SendMessage call is about to return (line 143) the map it
\* appended has been averaged into a state_dict that was written, and is no
\* longer in local_averages; this holds for every number of concurrent
\* callers and every interleaving.
C1_ReturnAfterPublish ==
    \A t \in Threads :
        pc[t] = "SM_ret" =>
            /\ req[t].agg >= 1
            /\ state_dict # None
            /\ t \notin Collected

\* A caller returns while two other callers are still inside SendMessage.
C1_Witness ==
    \E t \in Threads :
        /\ pc[t] = "SM_ret"
        /\ req[t].agg = 1
        /\ Cardinality(Submitting) >= 3

\* C2: with exactly target_clients SendMessage calls, made by distinct
\* registered clients on an empty list, at most one write of state_dict ever
\* happens, a call that is about to return sees exactly one write, computed
\* over the target_clients maps, and no call is left waiting when the
\* threads have nothing left to do.
C2_QuorumOfTarget ==
    (Accepted = target_clients /\ DistinctClients) =>
        /\ Len(aggLog) <= 1
        /\ \A t \in Threads : pc[t] = "SM_ret" => aggLog = <<target_clients>>
        /\ Quiescent => (Waiting = {} /\ aggLog = <<target_clients>>)

\* Both calls were accepted from distinct clients and both have returned.
C2_Witness ==
    /\ Accepted = target_clients
    /\ DistinctClients
    /\ \A t \in Threads : pc[t] = "idle"
    /\ aggLog = <<target_clients>>

\* C3: with a quorum of 2, four SendMessage calls by four distinct clients
\* give exactly two writes of state_dict, each over two maps: no write is over
\* any other number of maps, and when the threads have nothing left to do all
\* four calls have returned after two writes.
C3_TwoPairs ==
    (DistinctClients /\ Accepted <= 2 * target_clients) =>
        /\ \A i \in 1..Len(aggLog) : aggLog[i] = target_clients
        /\ (Quiescent /\ Accepted = 2 * target_clients) =>
              (Waiting = {} /\ Len(aggLog) = 2)

\* C4: every write of state_dict is computed over exactly target_clients maps.
C4_AggregatesTarget ==
    \A i \in 1..Len(aggLog) : aggLog[i] = target_clients

\* C5: local_averages never holds more than target_clients maps.
C5_AtMostTarget == Len(local_averages) <= target_clients

\* C6: a map is averaged into at most one write of state_dict, and a map that
\* was averaged is never in local_averages again: the maps appended after a
\* write are averaged apart from those the write covered.
C6_NoDoubleCount ==
    /\ \A t \in Submitting : req[t].agg <= 1
    /\ \A t \in Collected : req[t].agg = 0

\* After a write of state_dict a caller whose map was averaged has not
\* returned yet while a newer map is collected.
C6_Witness ==
    /\ Len(aggLog) >= 1
    /\ \E t \in Submitting : req[t].agg = 1 /\ pc[t] # "SM_ret"
    /\ Collected # {}

\* C7: a caller whose map has been averaged and published is never left
\* suspended in wait() with no thread able to take a step, that is, able to
\* return only if some later SendMessage call arrives.
C7_NotStranded ==
    ~ \E t \in Threads :
        /\ pc[t] = "SM_waiting"
        /\ req[t].agg >= 1
        /\ Quiescent

\* C8: local_averages never holds two maps appended by calls of one client.
C8_OneMapPerClient ==
    \A i, j \in 1..Len(la_calls) :
        i # j => req[la_calls[i]].id # req[la_calls[j]].id

\* C9: a SendMessage call whose id is no key of user_ids fails with KeyError
\* at line 112, and neither that step nor the failure changes user_ids,
\* local_averages, num_clients, state_dict or any other thread: no waiting
\* caller is woken.
C9_UnknownClientStep(t) ==
    LET unknown == pc[t] = "SM_heartbeat" /\ req[t].id \notin DOMAIN user_ids
        failing == pc[t] = "KeyError" /\ req[t].op = "SendMessage"
    IN  pc'[t] # pc[t] =>
            /\ unknown => pc'[t] = "KeyError"
            /\ failing => pc'[t] = "idle"
            /\ (unknown \/ failing) =>
                  /\ UNCHANGED <<user_ids, local_averages, num_clients,
                                 state_dict, la_calls, aggLog, subs>>
                  /\ \A u \in Threads \ {t} : pc'[u] = pc[u]

C9_UnknownClient == [][\A t \in Threads : C9_UnknownClientStep(t)]_vars

\* A SendMessage call fails for a client that had submitted before and has
\* been deregistered, while another caller is suspended in wait().
C9_Witness ==
    \E t \in Threads :
        /\ pc[t] = "KeyError"
        /\ req[t].op = "SendMessage"
        /\ subs[req[t].id] >= 1
        /\ Waiting # {}

\* C10: as long as no SendBye has removed a user, the registered ids are as
\* many as the GetID calls that took effect (so they are pairwise distinct and
\* each new one differs from those registered), their ordinals are exactly
\* 1..k, and the k-th GetID to take effect stores and returns ordinal k under
\* an id that was not registered.
C10_Ordinals ==
    byes = 0 =>
        /\ Cardinality(DOMAIN user_ids) = regs
        /\ {user_ids[i].user_num : i \in DOMAIN user_ids} = 1..regs

C10_Step ==
    (byes = 0 /\ regs' = regs + 1) =>
        \E id \in DOMAIN user_ids' \ DOMAIN user_ids :
            /\ user_ids'[id].user_num = regs'
            /\ \A j \in DOMAIN user_ids : user_ids'[j] = user_ids[j]

C10_ConcurrentRegister == []C10_Ordinals /\ [][C10_Step]_vars

\* Two registrations have taken effect while a third GetID call waits for the
\* lock, and no client has left.
C10_Witness ==
    /\ byes = 0
    /\ regs = 2
    /\ Cardinality(DOMAIN user_ids) = 2
    /\ \E t \in Threads : pc[t] = "GetID_lock"

\* Sessions whose status is DEAD.
DeadIds == {i \in DOMAIN user_ids : user_ids[i].status = STATUS_DEAD}

\* C11: the sweep of GetSize marks DEAD every session whose last_active is
\* more than STALE_SECONDS old and removes no session; a count that GetSize
\* returns is the number of sessions that are not DEAD; and a SendBye for a
\* DEAD session does not fail: it removes the session.
C11_Step(t) ==
    /\ (pc[t] = "GetSize_sweep" /\ pc'[t] # pc[t]) =>
          /\ DOMAIN user_ids' = DOMAIN user_ids
          /\ \A i \in DOMAIN user_ids :
                now - user_ids[i].last_active > STALE_SECONDS
                    => user_ids'[i].status = STATUS_DEAD
    /\ (pc[t] = "GetSize_count" /\ pc'[t] = "idle") =>
          /\ ret'.op = "GetSize"
          /\ ret'.size = Cardinality(DOMAIN user_ids \ DeadIds)
    /\ (pc[t] = "SendBye_body" /\ pc'[t] # pc[t] /\ req[t].id \in DeadIds) =>
          /\ pc'[t] = "idle"
          /\ DOMAIN user_ids' = DOMAIN user_ids \ {req[t].id}

C11_StaleIsDead == [][\A t \in Threads : C11_Step(t)]_vars

\* GetSize has marked both clients DEAD and returned 0 while they were
\* registered, and SendBye holds the lock to remove one of them.
C11_Witness ==
    /\ ret.op = "GetSize"
    /\ ret.size = 0
    /\ Cardinality(DeadIds) = target_clients
    /\ \E t \in Threads : pc[t] = "SendBye_body" /\ req[t].id \in DeadIds

\* C12: GetModel returns the baseline if and only if no write of state_dict
\* had happened when it tested state_dict (line 104); once a write has
\* happened, whatever names the average holds, it returns the state_dict that
\* is current when it returns.
C12_FetchPublished ==
    ret.op = "GetModel" =>
        IF ret.pubs = 0
        THEN ret.model = Baseline
        ELSE ret.model = ret.cur /\ ret.model # Baseline

\* The maps of local_averages all have the same parameter names.
CommonKeys ==
    \A i, j \in 1..Len(local_averages) :
        DOMAIN local_averages[i] = DOMAIN local_averages[j]

\* C13: a step that averages a non-empty local_averages whose maps have the
\* same names writes a state_dict whose names are exactly the names without
\* "bn", and whose value for a name is the sum of the maps' values for it
\* divided by the number of maps in local_averages, whatever target_clients
\* is.
C13_Step ==
    (aggLog' # aggLog /\ CommonKeys) =>
        LET n == Len(local_averages)
            total(name) == SumOver([i \in 1..n |-> local_averages[i][name]], 1..n)
            avg == state_dict'.items
        IN  /\ n >= 1
            /\ state_dict'.kind = "dict"
            /\ DOMAIN avg = {name \in DOMAIN local_averages[1] : ~HasBn(name)}
            /\ \A name \in DOMAIN avg :
                  /\ avg[name][2] > 0
                  /\ avg[name][1] * n = total(name) * avg[name][2]

C13_AverageOfMaps == [][C13_Step]_vars

\* Two maps with values 2 and 4 for "fc", each with a "bn1" entry as well,
\* have been averaged to {"fc": 3}.
C13_Witness ==
    /\ aggLog = <<target_clients>>
    /\ \A m \in env.maps : DOMAIN m = Keys
    /\ state_dict = [kind |-> "dict", items |-> [name \in {NameFc} |-> <<3, 1>>]]

\* C14: the thread that is about to run line 133 on a non-empty
\* local_averages, and so to write state_dict, is the thread whose append
\* brought the list to target_clients maps.
C14_QuorumCallerAggregates ==
    \A t \in Threads :
        (pc[t] = "SM_agg" /\ local_averages # <<>>) =>
            /\ Len(la_calls) >= target_clients
            /\ la_calls[target_clients] = t

\* Threads of GetSize between the release of the lock (line 91) and the
\* return (line 100).
Counting == {t \in Threads : pc[t] \in {"GetSize_iter", "GetSize_count"}}

\* C15: between the sweep of a GetSize call and its count user_ids stays as
\* the sweep left it, the count does not fail, and the count returned is the
\* number of ALIVE sessions the call's own sweep left.
C15_AtomicCount ==
    /\ \A t \in Counting : user_ids = req[t].left
    /\ \A t \in Threads : pc[t] # "RuntimeError"
    /\ ret.op = "GetSize" => ret.size = ret.swept

\* Thread t is serving a GetID, GetSize, SendBye or GetModel call.
InQuery(t) == req[t].op \in {"GetID", "GetSize", "SendBye", "GetModel"}

\* C16: a thread suspended in wait() never holds the lock, and every GetID,
\* GetSize, SendBye and GetModel call a worker has taken up comes to its end,
\* however many SendMessage callers are suspended, provided runnable threads
\* keep being scheduled.
C16_OnlySubmitBlocks ==
    /\ [](\A t \in FairWorkers : pc[t] = "SM_waiting" => lock # t)
    /\ \A t \in FairWorkers : InQuery(t) ~> (pc[t] = "idle")

\* A GetID call holds the lock while a caller of SendMessage is suspended.
C16_Witness ==
    /\ Waiting # {}
    /\ \E t \in Threads : pc[t] = "GetID_body" /\ lock = t

\* C17: whatever GetID and SendBye calls came before, the n-th GetID call to
\* take effect stores and returns ordinal n.
C17_Step ==
    regs' = regs + 1 =>
        \E id \in DOMAIN user_ids' \ DOMAIN user_ids :
            user_ids'[id].user_num = regs'

C17_JoinOrder == [][C17_Step]_vars

\* Some thread runs lines 133-134.
AggregationStep == \E t \in Threads : pc[t] = "SM_agg" /\ pc'[t] = "SM_ret"

\* C18: local_averages is empty right after every step that runs lines
\* 133-134, and it is empty whenever no SendMessage call is in progress.
C18_Step == AggregationStep => local_averages' = <<>>

C18_Released ==
    /\ [](Submitting = {} => local_averages = <<>>)
    /\ [][C18_Step]_vars

\* A round has been averaged and every SendMessage call has returned.
C18_Witness ==
    /\ Submitting = {}
    /\ Accepted >= target_clients
    /\ Len(aggLog) >= 1
    /\ local_averages = <<>>

\* C19: a step that runs lines 133-134 on an empty local_averages leaves
\* state_dict as it was, and state_dict changes only in steps that run them
\* on a non-empty local_averages.
C19_Step ==
    /\ (AggregationStep /\ local_averages = <<>>) => state_dict' = state_dict
    /\ (state_dict' # state_dict \/ aggLog' # aggLog) =>
          (AggregationStep /\ local_averages # <<>>)

C19_EmptyLeavesSnapshot == [][C19_Step]_vars

\* A caller whose round another caller has averaged holds the lock at line
\* 133 with local_averages empty.
C19_Witness ==
    \E t \in Threads :
        /\ pc[t] = "SM_agg"
        /\ req[t].agg >= 1
        /\ local_averages = <<>>
        /\ state_dict # None

\* Sessions of a registry that are DEAD although their last_active is no
\* more than STALE_SECONDS old.
FreshDead(users) ==
    {i \in DOMAIN users : /\ users[i].status = STATUS_DEAD
                          /\ now - users[i].last_active <= STALE_SECONDS}

\* C20: a session that is DEAD stays DEAD in every step that does not remove
\* it; a SendMessage heartbeat for it sets its last_active to the current
\* time and nothing else; and a count GetSize returns leaves out every DEAD
\* session, refreshed or not.
C20_Step ==
    /\ \A i \in DeadIds : i \in DOMAIN user_ids' => user_ids'[i].status = STATUS_DEAD
    /\ \A i \in DeadIds : i \notin DOMAIN user_ids' =>
          \E t \in Threads : pc[t] = "SendBye_body" /\ req[t].id = i /\ pc'[t] = "idle"
    /\ \A t \in Threads :
          (pc[t] = "SM_heartbeat" /\ pc'[t] = "SM_lock1" /\ req[t].id \in DeadIds) =>
              user_ids' = [user_ids EXCEPT ![req[t].id].last_active = now]
    /\ \A t \in Threads :
          (pc[t] = "GetSize_count" /\ pc'[t] = "idle") =>
              ret'.size + Cardinality(DeadIds) <= Cardinality(DOMAIN user_ids)

C20_DeadIsAbsorbing == [][C20_Step]_vars

\* The sweep of a GetSize call has left DEAD a session whose last_active a
\* SendMessage call had refreshed after it was marked, and the call is about
\* to count the registry as the sweep left it.
C20_Witness ==
    \E t \in Threads :
        /\ pc[t] = "GetSize_count"
        /\ user_ids = req[t].left
        /\ FreshDead(req[t].left) # {}

====
